---- MODULE Spec2Model ----
(***************************************************************************)
(* Timed test session lifecycle of the programming contest application:    *)
(* the student dashboard (start, answer, submit, expiry) and the admin's   *)
(* re-evaluation pass, over the MongoDB collections test_sessions,         *)
(* questions and settings.                                                 *)
(*                                                                         *)
(* Every Streamlit client session runs the page script in its own thread;  *)
(* each store operation (find, insert_one, update_one) is atomic, a script *)
(* run is not.  The reads at the head of one script run are taken as one   *)
(* step; every write is a step of its own.                                 *)
(*                                                                         *)
(* Encodings: Python None is the string "None" where the field holds       *)
(* strings, NoId / NoTime where it holds numbers; an optional document is  *)
(* a sequence of length 0 or 1; a dict is a function; time is counted in   *)
(* units of 30 minutes.                                                    *)
(***************************************************************************)
EXTENDS Integers, Sequences, FiniteSets, TLC

\* ------------------------------------------------------------------------
\* Bounds of the model
\* ------------------------------------------------------------------------
NumSets == 2          \* problem sets generated by the admin
MaxTime == 2          \* the clock stops after this many ticks

\* ------------------------------------------------------------------------
\* Program constants
\* ------------------------------------------------------------------------
LastMcq == 4          \* index of the last MCQ shown by the navigation
DashboardEndOffset == 1   \* timedelta(minutes=30)
DefaultDuration == 2      \* {"duration_minutes": 60}
MatchWindow == 5          \* timedelta(seconds=5), created_at is in seconds
Coding1 == 100            \* the question_id "coding_1" (the only non-int id)

None == "None"
NoId == 0
NoTime == -1

Students == {"s1", "s2", "s3", "s4", "s5"}
Clients == {"c1", "c2", "c3", "c4", "c5", "c6"}
\* the student logged in at each client: st.session_state.student_id
student_id == [c \in Clients |->
                 CASE c = "c1" -> "s1" [] c = "c2" -> "s1"
                   [] c = "c3" -> "s2" [] c = "c4" -> "s3"
                   [] c = "c5" -> "s4" [] OTHER -> "s5"]

Options == {"A", "B"}
CodeTexts == {"", " ", "code"}
McqKey == <<"mcq_0", "mcq_1", "mcq_2", "mcq_3", "mcq_4">>

VARIABLES
  test_sessions,   \* db.test_sessions, in insertion order
  questions,       \* db.questions, in insertion order
  settings,        \* db.settings: duration_minutes of contest_settings, or NoTime
  now,             \* the wall clock
  next_id,         \* the next _id the store hands out
  pc,              \* per client: where its running script stands
  picked,          \* per client: mcq_set of the running Start Test handler
  st_test_session, \* per client: st.session_state.test_session (optional doc)
  st_mcq,          \* per client: st.session_state.questions['mcq'] (optional list)
  st_coding,       \* per client: st.session_state.questions['coding'] (a list)
  current_mcq,     \* per client: st.session_state.questions['current_mcq']
  answers,         \* per client: st.session_state.questions['answers']
  st_end_time,     \* per client: st.session_state.end_time, or NoTime
  submit_result,   \* per client: what the last submit_test call returned
  reval_queue,     \* the admin's running re-evaluation pass: snapshots still to do
  start_error,     \* per client: the last Start Test click ended in st.error
  deleting         \* the admin's running Delete handler: the set whose
                   \* counterpart is still to be deleted (optional doc)

vars == <<test_sessions, questions, settings, now, next_id, pc, picked,
          st_test_session, st_mcq, st_coding, current_mcq, answers,
          st_end_time, submit_result, reval_queue, start_error, deleting>>

storeVars == <<test_sessions, questions, settings, now, next_id>>
clientVars == <<st_test_session, st_mcq, st_coding, current_mcq, answers,
                st_end_time>>

\* ------------------------------------------------------------------------
\* Helpers over sequences and dicts
\* ------------------------------------------------------------------------
\* A filter is given as the set of positions of the documents it matches.
RECURSIVE FindFrom(_, _, _)
FindFrom(coll, hits, i) ==
  IF i > Len(coll) THEN <<>>
  ELSE (IF i \in hits THEN <<coll[i]>> ELSE <<>>) \o FindFrom(coll, hits, i + 1)

\* list(collection.find(filter))
Find(coll, hits) == FindFrom(coll, hits, 1)

First(hits) == CHOOSE i \in hits : \A j \in hits : i <= j

\* collection.find_one(filter): the first match, as an optional document
FindOne(coll, hits) == IF hits = {} THEN <<>> ELSE <<coll[First(hits)]>>

\* collection.update_one(filter, {"$set": ...}): the first match takes its
\* new value from updated, the documents of coll with the $set applied
UpdateOne(coll, hits, updated) ==
  IF hits = {} THEN coll
  ELSE [coll EXCEPT ![First(hits)] = updated[First(hits)]]

EmptyDict == [k \in {} |-> None]
\* d.get(k) and d.get(k, default)
Get(d, k, default) == IF k \in DOMAIN d THEN d[k] ELSE default
\* d.setdefault(k, v): the first value saved under a key stays
PutIfAbsent(d, k, v) ==
  [x \in (DOMAIN d) \cup {k} |-> IF x \in DOMAIN d THEN d[x] ELSE v]

\* d[k] = v
Put(d, k, v) == [x \in (DOMAIN d) \cup {k} |-> IF x = k THEN v ELSE d[x]]

RECURSIVE SumSeq(_)
SumSeq(s) == IF s = <<>> THEN 0 ELSE s[1] + SumSeq(Tail(s))

\* ------------------------------------------------------------------------
\* The question bank written by "Confirm & Save": one mcq and one coding
\* document per generated problem set, same prompt and created_at
\* ------------------------------------------------------------------------
McqQuestions == <<"A", "B", "A", "B", "A">>   \* correct_answer of each MCQ

RECURSIVE SavedSets(_)
SavedSets(n) ==
  IF n = 0 THEN <<>>
  ELSE SavedSets(n - 1) \o
       << [_id |-> 2 * n - 1, type |-> "mcq", universal_prompt |-> "topic",
           created_at |-> 60 * n, generated_questions |-> McqQuestions],
          [_id |-> 2 * n, type |-> "coding", universal_prompt |-> "topic",
           created_at |-> 60 * n, generated_questions |-> <<"problem">>] >>

IsMcq(q) == q.type = "mcq"
McqSets(qs) == {i \in 1..Len(qs) : IsMcq(qs[i])}
\* {"_id": id, "type": type}
ByIdAndType(qs, id, type) ==
  {i \in 1..Len(qs) : qs[i]._id = id /\ qs[i].type = type}

\* the coding set matched to an mcq set by prompt and creation-time window
FindCodingSet(qs, mcq_set) ==
  FindOne(qs, {i \in 1..Len(qs) :
                 /\ qs[i].type = "coding"
                 /\ qs[i].universal_prompt = mcq_set.universal_prompt
                 /\ qs[i].created_at >= mcq_set.created_at - MatchWindow
                 /\ qs[i].created_at <= mcq_set.created_at + MatchWindow})

\* ------------------------------------------------------------------------
\* get_unused_problem_set
\* ------------------------------------------------------------------------
UsedSetIds(ss) == {ss[i].problem_set_id : i \in 1..Len(ss)}

\* set_usage.get(set_id, 0)
SetUsage(ss, id) == Cardinality({i \in 1..Len(ss) : ss[i].problem_set_id = id})

RECURSIVE MostUsed(_, _, _, _, _)
\* the same loop with the comparison turned round
MostUsed(all, i, ss, max_usage, most) ==
  IF i > Len(all) THEN most
  ELSE LET usage == SetUsage(ss, all[i]._id) IN
       IF max_usage = -1 \/ usage > max_usage
       THEN MostUsed(all, i + 1, ss, usage, <<all[i]>>)
       ELSE MostUsed(all, i + 1, ss, max_usage, most)

RECURSIVE LeastUsed(_, _, _, _, _)
\* the loop "for mcq_set in all_mcq_sets: if usage < min_usage: ..."
\* min_usage = -1 stands for float('inf')
LeastUsed(all, i, ss, min_usage, least) ==
  IF i > Len(all) THEN least
  ELSE LET usage == SetUsage(ss, all[i]._id) IN
       IF min_usage = -1 \/ usage < min_usage
       THEN LeastUsed(all, i + 1, ss, usage, <<all[i]>>)
       ELSE LeastUsed(all, i + 1, ss, min_usage, least)

\* the same function with find({}) in place of find({"type": "mcq"})
GetUnusedProblemSetAnyType(qs, ss) ==
  LET unused == Find(qs, {i \in 1..Len(qs) : qs[i]._id \notin UsedSetIds(ss)})
  IN IF qs = <<>> THEN <<>>
     ELSE IF unused # <<>> THEN <<unused[1]>>
     ELSE LeastUsed(qs, 1, ss, -1, <<>>)

\* the same function with "return all_mcq_sets[0]" once every set is used
GetUnusedProblemSetNoCount(qs, ss) ==
  LET all_mcq_sets == Find(qs, McqSets(qs))
      unused == Find(all_mcq_sets, {i \in 1..Len(all_mcq_sets) :
                                      all_mcq_sets[i]._id \notin UsedSetIds(ss)})
  IN IF all_mcq_sets = <<>> THEN <<>>
     ELSE IF unused # <<>> THEN <<unused[1]>>
     ELSE <<all_mcq_sets[1]>>

\* the optional mcq set document returned (<<>> for None)
GetUnusedProblemSet(qs, ss) ==
  LET all_mcq_sets == Find(qs, McqSets(qs))
      unused == Find(all_mcq_sets, {i \in 1..Len(all_mcq_sets) :
                                      all_mcq_sets[i]._id \notin UsedSetIds(ss)})
  IN IF all_mcq_sets = <<>> THEN <<>>
     ELSE IF unused # <<>> THEN <<unused[1]>>
     ELSE LeastUsed(all_mcq_sets, 1, ss, -1, <<>>)

\* ------------------------------------------------------------------------
\* Initial state: the bank is saved, nobody has started
\* ------------------------------------------------------------------------
Init ==
  /\ test_sessions = <<>>
  /\ questions = SavedSets(NumSets)
  /\ settings = NoTime
  /\ now = 0
  /\ next_id = 1
  /\ pc = [c \in Clients |-> "idle"]
  /\ picked = [c \in Clients |-> NoId]
  /\ st_test_session = [c \in Clients |-> <<>>]
  /\ st_mcq = [c \in Clients |-> <<>>]
  /\ st_coding = [c \in Clients |-> <<>>]
  /\ current_mcq = [c \in Clients |-> 0]
  /\ answers = [c \in Clients |-> EmptyDict]
  /\ st_end_time = [c \in Clients |-> NoTime]
  /\ submit_result = [c \in Clients |-> "none"]
  /\ reval_queue = <<>>
  /\ start_error = [c \in Clients |-> FALSE]
  /\ deleting = <<>>

\* ------------------------------------------------------------------------
\* show_dashboard: the two reads at the head of every student script run
\* ------------------------------------------------------------------------
\* {"student_id": s, "is_completed": completed}
ByStudent(ss, s, completed) ==
  {i \in 1..Len(ss) : ss[i].student_id = s /\ ss[i].is_completed = completed}
\* {"_id": id}
ById(ss, id) == {i \in 1..Len(ss) : ss[i]._id = id}

CompletedTest(ss, s) == FindOne(ss, ByStudent(ss, s, TRUE))

ActiveSession(ss, s) == FindOne(ss, ByStudent(ss, s, FALSE))

\* the same branches without the completed_test check
DashboardBranchNoCompleted(ss, s) ==
  IF ActiveSession(ss, s) # <<>> THEN "test" ELSE "start"

\* the branch of show_dashboard the run takes
DashboardBranch(ss, s) ==
  IF CompletedTest(ss, s) # <<>> THEN "completed"
  ELSE IF ActiveSession(ss, s) # <<>> THEN "test"
  ELSE "start"

\* ------------------------------------------------------------------------
\* Start Test: the click passes the two checks, get_unused_problem_set reads
\* the bank and the sessions, insert_one writes the session
\* ------------------------------------------------------------------------
ClickStart(c) ==
  /\ pc[c] = "idle"
  /\ DashboardBranch(test_sessions, student_id[c]) = "start"
  /\ pc' = [pc EXCEPT ![c] = "get_unused"]
  /\ UNCHANGED <<storeVars, clientVars, picked, submit_result, start_error,
                 reval_queue, deleting>>

PickSet(c) ==
  /\ pc[c] = "get_unused"
  /\ LET mcq_set == GetUnusedProblemSet(questions, test_sessions) IN
       IF mcq_set # <<>>
       THEN /\ picked' = [picked EXCEPT ![c] = mcq_set[1]._id]
            /\ pc' = [pc EXCEPT ![c] = "insert"]
       ELSE \* "No available question sets found."
            /\ picked' = picked
            /\ pc' = [pc EXCEPT ![c] = "idle"]
  /\ start_error' = [start_error EXCEPT ![c] =
                       GetUnusedProblemSet(questions, test_sessions) = <<>>]
  /\ UNCHANGED <<storeVars, clientVars, submit_result, reval_queue, deleting>>

\* the same document with the attempts laid out at the start
NewSessionWithAttempts(id, s, set_id, t) ==
  [_id |-> id, student_id |-> s, start_time |-> t,
   end_time |-> t + DashboardEndOffset, is_completed |-> FALSE,
   total_score |-> 0, problem_set_id |-> set_id,
   question_attempts |->
     << [question_id |-> Coding1, student_answer |-> "",
         correct_answer |-> None, is_correct |-> None,
         marks_obtained |-> 0, coding_breakdown |-> <<>>] >>,
   answers |-> EmptyDict, feedback |-> None, coding_set_id |-> NoId,
   email_sent |-> FALSE]

NewSession(id, s, set_id, t) ==
  [_id |-> id, student_id |-> s, start_time |-> t,
   end_time |-> t + DashboardEndOffset, is_completed |-> FALSE,
   total_score |-> 0, problem_set_id |-> set_id, question_attempts |-> <<>>,
   answers |-> EmptyDict, feedback |-> None, coding_set_id |-> NoId,
   email_sent |-> FALSE]

InsertSession(c) ==
  /\ pc[c] = "insert"
  /\ test_sessions' = Append(test_sessions,
                        NewSession(next_id, student_id[c], picked[c], now))
  /\ next_id' = next_id + 1
  /\ pc' = [pc EXCEPT ![c] = "idle"]
  /\ picked' = [picked EXCEPT ![c] = NoId]
  /\ UNCHANGED <<questions, settings, now, clientVars, submit_result,
                 start_error, reval_queue, deleting>>

\* ------------------------------------------------------------------------
\* show_test, up to the timer check: attach to the active session when the
\* client holds none, read the contest settings, fix the client's deadline
\* ------------------------------------------------------------------------
ContestDuration(st) == IF st = NoTime THEN DefaultDuration ELSE st

\* the same head of the run with the answers of the student's other
\* client session taken over at the attach
ShowTestHeadSharedAnswers(c) ==
  LET active == ActiveSession(test_sessions, student_id[c])
      attach == st_test_session[c] = <<>>
      others == {c2 \in Clients \ {c} : /\ student_id[c2] = student_id[c]
                                         /\ st_test_session[c2] # <<>>}
      mcq_set == FindOne(questions,
                   ByIdAndType(questions, active[1].problem_set_id, "mcq"))
      coding_set == FindCodingSet(questions, mcq_set[1])
      \* mcq_set["universal_prompt"] on None raises: the run ends there
      raised == attach /\ mcq_set = <<>>
      ts == IF attach THEN active ELSE st_test_session[c]
      end == IF st_end_time[c] = NoTime
             THEN ts[1].start_time + ContestDuration(settings)
             ELSE st_end_time[c]
  IN [ test_session |-> ts,
       mcq |-> IF attach /\ ~raised
               THEN <<mcq_set[1].generated_questions>> ELSE st_mcq[c],
       coding |-> IF attach /\ ~raised
                  THEN (IF coding_set # <<>>
                        THEN coding_set[1].generated_questions ELSE <<>>)
                  ELSE st_coding[c],
       current_mcq |-> IF attach /\ ~raised THEN 0 ELSE current_mcq[c],
       answers |-> IF attach /\ ~raised
                   THEN (IF others = {} THEN EmptyDict
                         ELSE answers[CHOOSE c2 \in others : TRUE])
                   ELSE answers[c],
       end_time |-> IF raised THEN st_end_time[c] ELSE end,
       raised |-> raised,
       \* remaining_time <= 0
       time_up |-> ~raised /\ end - now <= 0 ]

\* the same head of the run without the timer check
ShowTestHeadNoTimer(c) ==
  LET active == ActiveSession(test_sessions, student_id[c])
      attach == st_test_session[c] = <<>>
      mcq_set == FindOne(questions,
                   ByIdAndType(questions, active[1].problem_set_id, "mcq"))
      coding_set == FindCodingSet(questions, mcq_set[1])
      \* mcq_set["universal_prompt"] on None raises: the run ends there
      raised == attach /\ mcq_set = <<>>
      ts == IF attach THEN active ELSE st_test_session[c]
      end == IF st_end_time[c] = NoTime
             THEN ts[1].start_time + ContestDuration(settings)
             ELSE st_end_time[c]
  IN [ test_session |-> ts,
       mcq |-> IF attach /\ ~raised
               THEN <<mcq_set[1].generated_questions>> ELSE st_mcq[c],
       coding |-> IF attach /\ ~raised
                  THEN (IF coding_set # <<>>
                        THEN coding_set[1].generated_questions ELSE <<>>)
                  ELSE st_coding[c],
       current_mcq |-> IF attach /\ ~raised THEN 0 ELSE current_mcq[c],
       answers |-> IF attach /\ ~raised THEN EmptyDict ELSE answers[c],
       end_time |-> IF raised THEN st_end_time[c] ELSE end,
       raised |-> raised,
       time_up |-> FALSE ]

ShowTestHead(c) ==
  LET active == ActiveSession(test_sessions, student_id[c])
      attach == st_test_session[c] = <<>>
      mcq_set == FindOne(questions,
                   ByIdAndType(questions, active[1].problem_set_id, "mcq"))
      coding_set == FindCodingSet(questions, mcq_set[1])
      \* mcq_set["universal_prompt"] on None raises: the run ends there
      raised == attach /\ mcq_set = <<>>
      ts == IF attach THEN active ELSE st_test_session[c]
      end == IF st_end_time[c] = NoTime
             THEN ts[1].start_time + ContestDuration(settings)
             ELSE st_end_time[c]
  IN [ test_session |-> ts,
       mcq |-> IF attach /\ ~raised
               THEN <<mcq_set[1].generated_questions>> ELSE st_mcq[c],
       coding |-> IF attach /\ ~raised
                  THEN (IF coding_set # <<>>
                        THEN coding_set[1].generated_questions ELSE <<>>)
                  ELSE st_coding[c],
       current_mcq |-> IF attach /\ ~raised THEN 0 ELSE current_mcq[c],
       answers |-> IF attach /\ ~raised THEN EmptyDict ELSE answers[c],
       end_time |-> IF raised THEN st_end_time[c] ELSE end,
       raised |-> raised,
       \* remaining_time <= 0
       time_up |-> ~raised /\ end - now <= 0 ]

\* the client state a run leaves behind: h is ShowTestHead(c), then the
\* handler's own writes to current_mcq and answers
SetClient(c, h, cur, ans) ==
  /\ st_test_session' = [st_test_session EXCEPT ![c] = h.test_session]
  /\ st_mcq' = [st_mcq EXCEPT ![c] = h.mcq]
  /\ st_coding' = [st_coding EXCEPT ![c] = h.coding]
  /\ st_end_time' = [st_end_time EXCEPT ![c] = h.end_time]
  /\ current_mcq' = [current_mcq EXCEPT ![c] = cur]
  /\ answers' = [answers EXCEPT ![c] = ans]

\* a run that reaches the widgets of the test page
OnTestPage(c) ==
  /\ pc[c] = "idle"
  /\ DashboardBranch(test_sessions, student_id[c]) = "test"

\* a click on a widget of the question form: the form was drawn by an
\* earlier run of this client
FormShown(c) ==
  /\ OnTestPage(c)
  /\ st_test_session[c] # <<>>
  /\ st_mcq[c] # <<>>
  /\ st_end_time[c] # NoTime

\* the coding form is drawn below the last MCQ, and only when a coding
\* question was found (questions['coding'][0])
CodingFormShown(c) ==
  /\ FormShown(c)
  /\ current_mcq[c] = LastMcq
  /\ st_coding[c] # <<>>

\* a rerun without a click: page load, timer refresh
Render(c) ==
  /\ OnTestPage(c)
  /\ LET h == ShowTestHead(c) IN
       /\ SetClient(c, h, h.current_mcq, h.answers)
       /\ pc' = [pc EXCEPT ![c] = IF h.time_up THEN "submit" ELSE "idle"]
  /\ UNCHANGED <<storeVars, picked, submit_result, start_error, reval_queue,
                 deleting>>

\* "Save Answer"
SaveAnswer(c, answer) ==
  /\ FormShown(c)
  /\ LET h == ShowTestHead(c) IN
       IF h.time_up
       THEN /\ SetClient(c, h, h.current_mcq, h.answers)
            /\ pc' = [pc EXCEPT ![c] = "submit"]
       ELSE /\ SetClient(c, h, h.current_mcq,
                         Put(h.answers, McqKey[h.current_mcq + 1], answer))
            /\ pc' = pc
  /\ UNCHANGED <<storeVars, picked, submit_result, start_error, reval_queue,
                 deleting>>

\* "Previous"
PrevQuestion(c, answer) ==
  /\ FormShown(c)
  /\ current_mcq[c] > 0
  /\ LET h == ShowTestHead(c) IN
       IF h.time_up
       THEN /\ SetClient(c, h, h.current_mcq, h.answers)
            /\ pc' = [pc EXCEPT ![c] = "submit"]
       ELSE /\ SetClient(c, h, h.current_mcq - 1,
                         Put(h.answers, McqKey[h.current_mcq + 1], answer))
            /\ pc' = pc
  /\ UNCHANGED <<storeVars, picked, submit_result, start_error, reval_queue,
                 deleting>>

\* "Next"
NextQuestion(c, answer) ==
  /\ FormShown(c)
  /\ current_mcq[c] < LastMcq
  /\ LET h == ShowTestHead(c) IN
       IF h.time_up
       THEN /\ SetClient(c, h, h.current_mcq, h.answers)
            /\ pc' = [pc EXCEPT ![c] = "submit"]
       ELSE /\ SetClient(c, h, h.current_mcq + 1,
                         Put(h.answers, McqKey[h.current_mcq + 1], answer))
            /\ pc' = pc
  /\ UNCHANGED <<storeVars, picked, submit_result, start_error, reval_queue,
                 deleting>>

\* "Save Code"
SaveCode(c, code) ==
  /\ CodingFormShown(c)
  /\ LET h == ShowTestHead(c) IN
       IF h.time_up
       THEN /\ SetClient(c, h, h.current_mcq, h.answers)
            /\ pc' = [pc EXCEPT ![c] = "submit"]
       ELSE /\ SetClient(c, h, h.current_mcq, Put(h.answers, "coding", code))
            /\ pc' = pc
  /\ UNCHANGED <<storeVars, picked, submit_result, start_error, reval_queue,
                 deleting>>

\* "Submit Test": the code is saved one final time, then submit_test runs
ClickSubmit(c, code) ==
  /\ CodingFormShown(c)
  /\ LET h == ShowTestHead(c) IN
       /\ SetClient(c, h, h.current_mcq,
                    IF h.time_up THEN h.answers
                    ELSE Put(h.answers, "coding", code))
       /\ pc' = [pc EXCEPT ![c] = "submit"]
  /\ UNCHANGED <<storeVars, picked, submit_result, start_error, reval_queue,
                 deleting>>

\* ------------------------------------------------------------------------
\* submit_test
\* ------------------------------------------------------------------------
PyBool(b) == IF b THEN "True" ELSE "False"

NoBreakdown == <<>>

RECURSIVE GradeMcqsCountAnswered(_, _, _, _, _)
\* the same loop with "total_score += 1 if answer else 0"
GradeMcqsCountAnswered(mcq, ans, i, total_score, question_attempts) ==
  IF i >= Len(mcq) THEN [total_score |-> total_score,
                         question_attempts |-> question_attempts]
  ELSE LET answer == Get(ans, McqKey[i + 1], None)
           is_correct == answer = mcq[i + 1]
       IN GradeMcqsCountAnswered(mcq, ans, i + 1,
            total_score + (IF answer # None THEN 1 ELSE 0),
            Append(question_attempts,
              [question_id |-> i, student_answer |-> answer,
               correct_answer |-> mcq[i + 1],
               is_correct |-> PyBool(is_correct),
               marks_obtained |-> IF is_correct THEN 1 ELSE 0,
               coding_breakdown |-> NoBreakdown]))

RECURSIVE GradeMcqs(_, _, _, _, _)
\* the loop "for i, mcq in enumerate(questions['mcq'])"; i counts from 0
GradeMcqs(mcq, ans, i, total_score, question_attempts) ==
  IF i >= Len(mcq) THEN [total_score |-> total_score,
                         question_attempts |-> question_attempts]
  ELSE LET answer == Get(ans, McqKey[i + 1], None)
           is_correct == answer = mcq[i + 1]
       IN GradeMcqs(mcq, ans, i + 1,
            total_score + (IF is_correct THEN 1 ELSE 0),
            Append(question_attempts,
              [question_id |-> i, student_answer |-> answer,
               correct_answer |-> mcq[i + 1],
               is_correct |-> PyBool(is_correct),
               marks_obtained |-> IF is_correct THEN 1 ELSE 0,
               coding_breakdown |-> NoBreakdown]))

\* "Store coding answer": the placeholder attempt, when a coding question
\* is held by the client
CodingAttempts(coding, ans) ==
  IF coding # <<>>
  THEN << [question_id |-> Coding1, student_answer |-> Get(ans, "coding", ""),
           correct_answer |-> None, is_correct |-> None,
           marks_obtained |-> 0, coding_breakdown |-> NoBreakdown] >>
  ELSE <<>>

\* the same update without "is_completed": True in the $set
CompleteSessionNoFlag(ss, s, graded, coding, ans, t) ==
  UpdateOne(ss, ByStudent(ss, s, FALSE),
    [i \in 1..Len(ss) |->
       [ss[i] EXCEPT !.end_time = t,
                     !.total_score = graded.total_score,
                     !.question_attempts =
                        graded.question_attempts \o CodingAttempts(coding, ans),
                     !.answers = ans]])

\* the same update with the filter {"is_completed": False} only
CompleteSessionAnyStudent(ss, s, graded, coding, ans, t) ==
  UpdateOne(ss, {i \in 1..Len(ss) : ~ss[i].is_completed},
    [i \in 1..Len(ss) |->
       [ss[i] EXCEPT !.is_completed = TRUE,
                     !.end_time = t,
                     !.total_score = graded.total_score,
                     !.question_attempts =
                        graded.question_attempts \o CodingAttempts(coding, ans),
                     !.answers = ans]])

\* the same handler with two updates, of which this is the first:
\* {"$set": {"is_completed": True, "end_time": ...}}
CompleteSessionFlagOnly(ss, s, graded, coding, ans, t) ==
  UpdateOne(ss, ByStudent(ss, s, FALSE),
    [i \in 1..Len(ss) |->
       [ss[i] EXCEPT !.is_completed = TRUE, !.end_time = t]])

\* the same update with the filter {"student_id": s} only
CompleteSessionAnyState(ss, s, graded, coding, ans, t) ==
  UpdateOne(ss, {i \in 1..Len(ss) : ss[i].student_id = s},
    [i \in 1..Len(ss) |->
       [ss[i] EXCEPT !.is_completed = TRUE,
                     !.end_time = t,
                     !.total_score = graded.total_score,
                     !.question_attempts =
                        graded.question_attempts \o CodingAttempts(coding, ans),
                     !.answers = ans]])

\* the documents of test_sessions after submit_test's update_one
CompleteSession(ss, s, graded, coding, ans, t) ==
  UpdateOne(ss, ByStudent(ss, s, FALSE),
    [i \in 1..Len(ss) |->
       [ss[i] EXCEPT !.is_completed = TRUE,
                     !.end_time = t,
                     !.total_score = graded.total_score,
                     !.question_attempts =
                        graded.question_attempts \o CodingAttempts(coding, ans),
                     !.answers = ans]])

\* submit_test, called by the timer check or by "Submit Test"
SubmitTest(c) ==
  /\ pc[c] = "submit"
  /\ pc' = [pc EXCEPT ![c] = "idle"]
  /\ IF st_mcq[c] = <<>>
     THEN \* st.session_state.questions is missing: the except branch
          /\ submit_result' = [submit_result EXCEPT ![c] = "error"]
          /\ UNCHANGED <<test_sessions, clientVars>>
     ELSE LET graded == GradeMcqs(st_mcq[c][1], answers[c], 0, 0, <<>>)
              modified == ActiveSession(test_sessions, student_id[c]) # <<>>
          IN /\ test_sessions' = CompleteSession(test_sessions, student_id[c],
                                   graded, st_coding[c], answers[c], now)
             /\ IF modified
                THEN \* keys_to_clear
                     /\ st_test_session' = [st_test_session EXCEPT ![c] = <<>>]
                     /\ st_mcq' = [st_mcq EXCEPT ![c] = <<>>]
                     /\ st_coding' = [st_coding EXCEPT ![c] = <<>>]
                     /\ current_mcq' = [current_mcq EXCEPT ![c] = 0]
                     /\ answers' = [answers EXCEPT ![c] = EmptyDict]
                     /\ st_end_time' = [st_end_time EXCEPT ![c] = NoTime]
                     /\ submit_result' = [submit_result EXCEPT ![c] = "score"]
                ELSE \* modified_count == 0: "Failed to submit test."
                     /\ submit_result' = [submit_result EXCEPT ![c] = "failed"]
                     /\ UNCHANGED clientVars
  /\ UNCHANGED <<questions, settings, now, next_id, picked, start_error,
                 reval_queue, deleting>>

\* ------------------------------------------------------------------------
\* The clock, and the admin's contest settings form
\* ------------------------------------------------------------------------
\* the same clock with a background job that closes the sessions whose
\* stored end_time has passed
TickExpire ==
  /\ now < MaxTime
  /\ now' = now + 1
  /\ test_sessions' =
       [i \in 1..Len(test_sessions) |->
          IF ~test_sessions[i].is_completed /\ test_sessions[i].end_time <= now + 1
          THEN [test_sessions[i] EXCEPT !.is_completed = TRUE]
          ELSE test_sessions[i]]
  /\ UNCHANGED <<questions, settings, next_id, pc, picked,
                 clientVars, submit_result, start_error, reval_queue, deleting>>

Tick ==
  /\ now < MaxTime
  /\ now' = now + 1
  /\ UNCHANGED <<test_sessions, questions, settings, next_id, pc, picked,
                 clientVars, submit_result, start_error, reval_queue, deleting>>

DurationInputs == {1}   \* 30 minutes, within min_value..max_value

ManageContestSettings(duration) ==
  /\ settings' = duration
  /\ UNCHANGED <<test_sessions, questions, now, next_id, pc, picked,
                 clientVars, submit_result, start_error, reval_queue, deleting>>

\* ------------------------------------------------------------------------
\* view_questions: the Delete button of a question set.  The handler deletes
\* the set it was clicked on, then the set of the other type with the same
\* prompt and creation-time window.  The button is drawn when the set's own
\* _id is not the problem_set_id of any session.
\* ------------------------------------------------------------------------
\* collection.delete_one(filter): the first match is removed
DeleteOne(coll, hits) ==
  IF hits = {} THEN coll
  ELSE SubSeq(coll, 1, First(hits) - 1)
         \o SubSeq(coll, First(hits) + 1, Len(coll))

\* {"type": type, "universal_prompt": ..., "created_at": {"$gte", "$lte"}}
Counterpart(qs, q_set, type) ==
  {i \in 1..Len(qs) :
     /\ qs[i].type = type
     /\ qs[i].universal_prompt = q_set.universal_prompt
     /\ qs[i].created_at >= q_set.created_at - MatchWindow
     /\ qs[i].created_at <= q_set.created_at + MatchWindow}

\* the first delete_one of the handler, on the set at position i
DeleteSet(i) ==
  /\ deleting = <<>>
  /\ i \in 1..Len(questions)
  /\ questions[i]._id \notin UsedSetIds(test_sessions)     \* not is_used
  /\ questions' = DeleteOne(questions, ByIdAndType(questions, questions[i]._id,
                                                   questions[i].type))
  /\ deleting' = <<questions[i]>>
  /\ UNCHANGED <<test_sessions, settings, now, next_id, pc, picked, clientVars,
                 submit_result, start_error, reval_queue>>

\* the second delete_one of the handler
DeleteCounterpart ==
  /\ deleting # <<>>
  /\ deleting[1].type # "all"
  /\ questions' = DeleteOne(questions,
                    Counterpart(questions, deleting[1],
                      IF deleting[1].type = "mcq" THEN "coding" ELSE "mcq"))
  /\ deleting' = <<>>
  /\ UNCHANGED <<test_sessions, settings, now, next_id, pc, picked, clientVars,
                 submit_result, start_error, reval_queue>>

\* "Delete All Sets", confirmed with "Yes, Delete All": delete_many on the
\* sessions first, then delete_many on the questions.  The button is drawn
\* when the bank holds an MCQ set (stats["total_sets"] > 0).
AllSets == [_id |-> NoId, type |-> "all", universal_prompt |-> "",
            created_at |-> 0, generated_questions |-> <<>>]

DeleteAllSessions ==
  /\ deleting = <<>>
  /\ McqSets(questions) # {}
  /\ test_sessions' = <<>>
  /\ deleting' = <<AllSets>>
  /\ UNCHANGED <<questions, settings, now, next_id, pc, picked, clientVars,
                 submit_result, start_error, reval_queue>>

DeleteAllQuestions ==
  /\ deleting = <<AllSets>>
  /\ questions' = <<>>
  /\ deleting' = <<>>
  /\ UNCHANGED <<test_sessions, settings, now, next_id, pc, picked, clientVars,
                 submit_result, start_error, reval_queue>>

\* ------------------------------------------------------------------------
\* revaluate_coding_submissions: "Start Re-evaluation" reads the sessions
\* that hold a coding attempt, then handles them one by one; the evaluator's
\* answer to each prompt is an input
\* ------------------------------------------------------------------------
IsCoding1(a) == a.question_id = Coding1
\* isinstance(attempt.get('question_id'), int)
IsIntId(a) == a.question_id # Coding1

HasCodingAttempt(d) == \E i \in 1..Len(d.question_attempts) :
                          IsCoding1(d.question_attempts[i])

\* str.strip() on the code texts of the model
Strip(text) == IF text = " " THEN "" ELSE text

\* what ask_gemini and json.loads make of the evaluation prompt:
\*   "none"        ask_gemini returned None
\*   "unparsable"  json.JSONDecodeError
\*   "incomplete"  a JSON object without the expected keys (KeyError)
\*   "scores"      a JSON object with the three sub-scores
EvalResponse(kind, a, s, l) == [kind |-> kind, attempt_score |-> a,
                                syntax_score |-> s, logic_score |-> l]
EvalResponses ==
  { EvalResponse("none", 0, 0, 0), EvalResponse("unparsable", 0, 0, 0),
    EvalResponse("incomplete", 0, 0, 0),
    EvalResponse("scores", 1, 2, 1), EvalResponse("scores", 2, 2, 2),
    EvalResponse("scores", 0, -1, 0) }

\* the coding_set_id the pass works with: the session's own, else the one
\* found through problem_set_id (NoId when none is found)
ResolveCodingSetId(qs, session) ==
  IF session.coding_set_id # NoId THEN session.coding_set_id
  ELSE LET mcq_set == FindOne(qs, ByIdAndType(qs, session.problem_set_id, "mcq"))
           coding_set == FindCodingSet(qs, mcq_set[1])
       IN IF mcq_set # <<>> /\ coding_set # <<>> THEN coding_set[1]._id
          ELSE NoId

\* the evaluator is asked only when the coding question can be read
EvaluatorAsked(qs, coding_set_id) ==
  LET coding_set == FindOne(qs, ByIdAndType(qs, coding_set_id, "coding"))
  IN /\ coding_set_id # NoId
     /\ coding_set # <<>>
     /\ coding_set[1].generated_questions # <<>>

\* the same update with logic_score left out of coding_score
RegradeAttemptNoLogic(attempt, asked, resp) ==
  IF Strip(attempt.student_answer) = ""
  THEN [attempt EXCEPT !.is_correct = "False", !.marks_obtained = 0,
                       !.coding_breakdown = <<0, 0, 0>>]
  ELSE IF asked /\ resp.kind = "scores"
  THEN LET coding_score == resp.attempt_score + resp.syntax_score
       IN [attempt EXCEPT !.is_correct = PyBool(coding_score > 0),
                          !.marks_obtained = coding_score,
                          !.coding_breakdown = <<resp.attempt_score,
                                     resp.syntax_score, resp.logic_score>>]
  ELSE attempt

\* the same update with the attempt set to zero marks when no result is usable
RegradeAttemptResetOnFailure(attempt, asked, resp) ==
  IF Strip(attempt.student_answer) # "" /\ asked /\ resp.kind = "scores"
  THEN LET coding_score == resp.attempt_score + resp.syntax_score
                           + resp.logic_score
       IN [attempt EXCEPT !.is_correct = PyBool(coding_score > 0),
                          !.marks_obtained = coding_score,
                          !.coding_breakdown = <<resp.attempt_score,
                                     resp.syntax_score, resp.logic_score>>]
  ELSE [attempt EXCEPT !.is_correct = "False", !.marks_obtained = 0,
                       !.coding_breakdown = <<0, 0, 0>>]

\* coding_attempt.update({...}) for one session of the pass
RegradeAttempt(attempt, asked, resp) ==
  IF Strip(attempt.student_answer) = ""
  THEN [attempt EXCEPT !.is_correct = "False", !.marks_obtained = 0,
                       !.coding_breakdown = <<0, 0, 0>>]
  ELSE IF asked /\ resp.kind = "scores"
  THEN LET coding_score == resp.attempt_score + resp.syntax_score
                           + resp.logic_score
       IN [attempt EXCEPT !.is_correct = PyBool(coding_score > 0),
                          !.marks_obtained = coding_score,
                          !.coding_breakdown = <<resp.attempt_score,
                                     resp.syntax_score, resp.logic_score>>]
  ELSE attempt

RECURSIVE McqScoreUnfiltered(_)
\* the same sum without the isinstance filter
McqScoreUnfiltered(attempts) ==
  IF attempts = <<>> THEN 0
  ELSE Head(attempts).marks_obtained + McqScoreUnfiltered(Tail(attempts))

RECURSIVE McqScore(_)
\* sum(attempt['marks_obtained'] for attempt ... if isinstance(question_id, int))
McqScore(attempts) ==
  IF attempts = <<>> THEN 0
  ELSE (IF IsIntId(Head(attempts)) THEN Head(attempts).marks_obtained ELSE 0)
       + McqScore(Tail(attempts))

\* "Recalculate total score"
RecalculatedTotal(attempts, coding_attempt) ==
  McqScore(attempts) + coding_attempt.marks_obtained

\* the same update with "total_score = session['total_score'] + marks"
RegradedSessionIncrement(session, asked, resp) ==
  LET idx == CHOOSE i \in 1..Len(session.question_attempts) :
               /\ IsCoding1(session.question_attempts[i])
               /\ \A j \in 1..(i - 1) : ~IsCoding1(session.question_attempts[j])
      coding_attempt == RegradeAttempt(session.question_attempts[idx], asked, resp)
      attempts == [session.question_attempts EXCEPT ![idx] = coding_attempt]
  IN [session EXCEPT !.question_attempts = attempts,
                     !.total_score = session.total_score
                                       + coding_attempt.marks_obtained,
                     !.feedback = "feedback"]

\* the same update applied to the first attempt of the list
RegradedSessionFirstAttempt(session, asked, resp) ==
  LET coding_attempt == RegradeAttempt(session.question_attempts[1], asked, resp)
      attempts == [session.question_attempts EXCEPT ![1] = coding_attempt]
  IN [session EXCEPT !.question_attempts = attempts,
                     !.total_score = RecalculatedTotal(attempts, coding_attempt),
                     !.feedback = "feedback"]

\* the snapshot document with its coding attempt re-graded in place
RegradedSession(session, asked, resp) ==
  LET idx == CHOOSE i \in 1..Len(session.question_attempts) :
               /\ IsCoding1(session.question_attempts[i])
               /\ \A j \in 1..(i - 1) : ~IsCoding1(session.question_attempts[j])
      coding_attempt == RegradeAttempt(session.question_attempts[idx], asked, resp)
      attempts == [session.question_attempts EXCEPT ![idx] = coding_attempt]
  IN [session EXCEPT !.question_attempts = attempts,
                     !.total_score = RecalculatedTotal(attempts, coding_attempt),
                     !.feedback = "feedback"]

\* "Update the test session with new scores and feedback"
StoreRegrade(ss, new) ==
  UpdateOne(ss, ById(ss, new._id),
    [i \in 1..Len(ss) |->
       [ss[i] EXCEPT !.question_attempts = new.question_attempts,
                     !.total_score = new.total_score,
                     !.feedback = new.feedback]])

RevalStart ==
  /\ reval_queue = <<>>
  /\ reval_queue' = Find(test_sessions,
                         {i \in 1..Len(test_sessions) :
                            HasCodingAttempt(test_sessions[i])})
  /\ UNCHANGED <<storeVars, pc, picked, clientVars, submit_result, start_error,
                 deleting>>

\* one turn of "for i, session in enumerate(test_sessions)"
RevalSession(resp) ==
  /\ reval_queue # <<>>
  /\ LET session == Head(reval_queue)
         blank == \A i \in 1..Len(session.question_attempts) :
                    IsCoding1(session.question_attempts[i]) =>
                      Strip(session.question_attempts[i].student_answer) = ""
         coding_set_id == ResolveCodingSetId(questions, session)
         asked == EvaluatorAsked(questions, coding_set_id)
         \* "Update session with coding_set_id for future use"
         found == IF ~blank /\ session.coding_set_id = NoId /\ coding_set_id # NoId
                  THEN UpdateOne(test_sessions, ById(test_sessions, session._id),
                         [i \in 1..Len(test_sessions) |->
                            [test_sessions[i] EXCEPT !.coding_set_id = coding_set_id]])
                  ELSE test_sessions
         new == RegradedSession(session, asked, resp)
     IN IF ~blank /\ asked /\ resp.kind = "incomplete"
        THEN \* evaluation['attempt_score'] raises: the pass ends here
             /\ test_sessions' = found
             /\ reval_queue' = <<>>
        ELSE /\ test_sessions' = StoreRegrade(found, new)
             /\ reval_queue' = Tail(reval_queue)
  /\ UNCHANGED <<questions, settings, now, next_id, pc, picked, clientVars,
                 submit_result, start_error, deleting>>

\* an update that also puts the session back in progress
MarkEmailSentReopen(d) == [d EXCEPT !.email_sent = TRUE, !.is_completed = FALSE]

\* {"$set": {"email_sent": True}}
MarkEmailSent(d) == [d EXCEPT !.email_sent = TRUE]

\* "Send Email Report" on the results page, for a completed session
SendEmailReport(id) ==
  /\ \E i \in 1..Len(test_sessions) :
        /\ test_sessions[i]._id = id
        /\ test_sessions[i].is_completed
  /\ test_sessions' = UpdateOne(test_sessions, ById(test_sessions, id),
                        [i \in 1..Len(test_sessions) |->
                           MarkEmailSent(test_sessions[i])])
  /\ UNCHANGED <<questions, settings, now, next_id, pc, picked, clientVars,
                 submit_result, start_error, reval_queue, deleting>>

\* ------------------------------------------------------------------------
\* Specifications
\* ------------------------------------------------------------------------
StartTest(c) == ClickStart(c) \/ PickSet(c) \/ InsertSession(c)

TakeTest(c, opts, codes) ==
  \/ Render(c)
  \/ \E answer \in opts : \/ SaveAnswer(c, answer)
                          \/ PrevQuestion(c, answer)
                          \/ NextQuestion(c, answer)
  \/ \E code \in codes : SaveCode(c, code) \/ ClickSubmit(c, code)
  \/ SubmitTest(c)

Admin ==
  \/ \E d \in DurationInputs : ManageContestSettings(d)
  \/ RevalStart
  \/ \E resp \in EvalResponses : RevalSession(resp)

\* one student at one client, every input, the clock and the admin
Next ==
  \/ StartTest("c1")
  \/ TakeTest("c1", Options, CodeTexts)
  \/ Tick
  \/ Admin

Spec == Init /\ [][Next]_vars

\* two clients of the same student, one answer per widget, the admin's
\* re-evaluation and results page; the clock stands still
NextRace ==
  \/ \E c \in {"c1", "c2"} : StartTest(c) \/ TakeTest(c, {"A"}, {"code"})
  \/ RevalStart
  \/ \E resp \in EvalResponses : RevalSession(resp)
  \/ \E id \in 1..(next_id - 1) : SendEmailReport(id)

SpecRace == Init /\ [][NextRace]_vars

\* two clients of the same student, one answer per widget, the clock and
\* the contest settings
NextExpiry ==
  \/ \E c \in {"c1", "c2"} : StartTest(c) \/ TakeTest(c, {"A"}, {"code"})
  \/ Tick
  \/ \E d \in DurationInputs : ManageContestSettings(d)

SpecExpiry == Init /\ [][NextExpiry]_vars

\* one student at one client, one answer per widget, the clock and the
\* admin's Delete buttons of the question bank
NextBank ==
  \/ StartTest("c1")
  \/ TakeTest("c1", {"A"}, {"code"})
  \/ Tick
  \/ \E i \in 1..Len(questions) : DeleteSet(i)
  \/ DeleteCounterpart

SpecBank == Init /\ [][NextBank]_vars

\* one student at one client and the admin at the question bank and the
\* re-evaluation page, the handlers of the two running one after the other:
\* no student run while a Delete handler is between its two writes, no
\* Delete click while the student's Start Test or submit is under way
NextMaint ==
  \/ /\ deleting = <<>>
     /\ StartTest("c1") \/ TakeTest("c1", {"A"}, {"code"})
  \/ /\ pc["c1"] = "idle"
     /\ \/ \E i \in 1..Len(questions) : DeleteSet(i)
        \/ DeleteAllSessions
  \/ DeleteCounterpart
  \/ DeleteAllQuestions
  \/ RevalStart
  \/ \E resp \in EvalResponses : RevalSession(resp)

SpecMaint == Init /\ [][NextMaint]_vars

\* two students, each at one client, one answer per widget
NextPair ==
  \E c \in {"c1", "c3"} : StartTest(c) \/ TakeTest(c, {"A"}, {"code"})

SpecPair == Init /\ [][NextPair]_vars

\* the start of a test at four clients of three students, nothing else
NextStart ==
  \E c \in {"c1", "c2", "c3", "c4"} :
     ClickStart(c) \/ PickSet(c) \/ InsertSession(c)

SpecStart == Init /\ [][NextStart]_vars

\* the start of a test at every client, one Start Test handler at a time
NextSeq ==
  \E c \in Clients :
     /\ \A c2 \in Clients \ {c} : pc[c2] = "idle"
     /\ StartTest(c)

SpecSeq == Init /\ [][NextSeq]_vars

\* ------------------------------------------------------------------------
\* Properties
\* ------------------------------------------------------------------------
Sessions == 1..Len(test_sessions)
Attempts(d) == 1..Len(d.question_attempts)
MarksOf(d) == [i \in Attempts(d) |-> d.question_attempts[i].marks_obtained]
CodingOf(d) == {d.question_attempts[i] : i \in {j \in Attempts(d) :
                                            IsCoding1(d.question_attempts[j])}}
ActiveOf(s) == {i \in Sessions : /\ test_sessions[i].student_id = s
                                 /\ ~test_sessions[i].is_completed}
CompletedOf(s) == {i \in Sessions : /\ test_sessions[i].student_id = s
                                    /\ test_sessions[i].is_completed}
McqSetIds == {questions[i]._id : i \in McqSets(questions)}

\* C1: in every reachable state the total_score of every completed session
\* is the sum of marks_obtained over all its question_attempts, after
\* submit_test and after every turn of the re-evaluation pass.
C1_TotalIsSumOfMarks ==
  \A i \in Sessions :
    test_sessions[i].is_completed =>
      test_sessions[i].total_score = SumSeq(MarksOf(test_sessions[i]))

\* a re-graded session with MCQ marks and coding marks in its total
C1_Witness ==
  \E i \in Sessions :
    /\ test_sessions[i].is_completed
    /\ test_sessions[i].feedback # None
    /\ \E a \in CodingOf(test_sessions[i]) :
          /\ a.marks_obtained > 0
          /\ test_sessions[i].total_score > a.marks_obtained

\* C2: every student has at most one session with is_completed = false,
\* whatever the interleaving of the start-test runs of that student's
\* clients.
C2_AtMostOneActive ==
  \A s \in Students : Cardinality(ActiveOf(s)) <= 1

\* C4: while an MCQ set is still unused, a start never gives a student the
\* problem_set_id that a session of another student already has, also when
\* start requests interleave between get_unused_problem_set and insert_one.
C4_DistinctSetsWhileUnused ==
  [][ \A c \in Clients :
        ( /\ pc[c] = "insert"
          /\ Len(test_sessions') = Len(test_sessions) + 1
          /\ test_sessions'[Len(test_sessions')].student_id = student_id[c]
          /\ pc'[c] = "idle"
          /\ McqSetIds \ UsedSetIds(test_sessions) # {} )
        => \A i \in Sessions :
              test_sessions[i].student_id # student_id[c]
              => test_sessions[i].problem_set_id
                   # test_sessions'[Len(test_sessions')].problem_set_id
    ]_vars

\* C10: get_unused_problem_set returns an MCQ set no session refers to
\* whenever there is one; otherwise a set whose usage count is minimal
\* among all MCQ sets.
C10_UnusedElseLeastUsed ==
  [][ \A c \in Clients :
        (pc[c] = "get_unused" /\ pc'[c] # "get_unused") =>
          /\ (McqSetIds # {}) => (pc'[c] = "insert" /\ picked'[c] \in McqSetIds)
          /\ (McqSetIds \ UsedSetIds(test_sessions) # {})
                => picked'[c] \notin UsedSetIds(test_sessions)
          /\ (McqSetIds # {} /\ McqSetIds \ UsedSetIds(test_sessions) = {})
                => \A id \in McqSetIds :
                      SetUsage(test_sessions, picked'[c])
                        <= SetUsage(test_sessions, id)
    ]_vars

\* a pick among sets that are all in use, with unequal usage counts
C10_Witness ==
  \E c \in Clients :
    /\ pc[c] = "insert"
    /\ McqSetIds \ UsedSetIds(test_sessions) = {}
    /\ \E id \in McqSetIds :
          SetUsage(test_sessions, picked[c]) < SetUsage(test_sessions, id)
    /\ \A id \in McqSetIds :
          SetUsage(test_sessions, picked[c]) <= SetUsage(test_sessions, id)

\* C3: of two racing submit_test calls of one student, the one that comes
\* after the Active to Completed transition matches no document, reports
\* the failure and leaves the sessions as they are.
C3_SecondSubmitIsNoOp ==
  [][ \A c \in Clients :
        ( /\ pc[c] = "submit"
          /\ pc'[c] = "idle"
          /\ CompletedOf(student_id[c]) # {} )
        => /\ test_sessions' = test_sessions
           /\ submit_result'[c] = "failed"
    ]_vars

\* C5: a session observed after its deadline becomes Completed with the
\* total_score of the answers saved before the deadline, also when the
\* observing client is not the client the answers were saved in.
C5_ExpiryScoresSavedAnswers ==
  [][ \A c \in Clients : \A c2 \in Clients \ {c} :
        ( /\ pc[c] = "submit"
          /\ pc'[c] = "idle"
          /\ submit_result'[c] = "score"
          /\ st_end_time[c] # NoTime
          /\ now >= st_end_time[c]
          /\ answers[c] = EmptyDict
          /\ student_id[c2] = student_id[c]
          /\ st_test_session[c2] # <<>>
          /\ st_mcq[c2] # <<>>
          /\ st_end_time[c2] = st_end_time[c]
          /\ st_test_session[c2][1]._id
               = test_sessions[First(ActiveOf(student_id[c]))]._id )
        => test_sessions'[First(ActiveOf(student_id[c]))].total_score
             = GradeMcqs(st_mcq[c2][1], answers[c2], 0, 0, <<>>).total_score
    ]_vars

\* number of MCQ attempts answered correctly
McqMarks(d) == Cardinality({i \in Attempts(d) :
                  /\ IsIntId(d.question_attempts[i])
                  /\ d.question_attempts[i].student_answer
                       = d.question_attempts[i].correct_answer})

\* C6: a grading result applied to a completed session leaves the coding
\* attempt with marks_obtained = attempt_score + syntax_score + logic_score
\* and is_correct = (marks_obtained > 0), and the session with total_score =
\* MCQ marks + coding marks; MCQ score 3 with result (1, 2, 1) gives coding
\* marks 4 and total_score 7.
C6_GradingResultApplied ==
  \A i \in Sessions : \A a \in CodingOf(test_sessions[i]) :
    a.coding_breakdown # NoBreakdown =>
      LET b == a.coding_breakdown IN
      /\ a.marks_obtained = b[1] + b[2] + b[3]
      /\ a.is_correct \in {"True", "False"}
      /\ (a.is_correct = "True") <=> (a.marks_obtained > 0)
      /\ test_sessions[i].total_score
           = McqMarks(test_sessions[i]) + a.marks_obtained
      /\ (McqMarks(test_sessions[i]) = 3 /\ b = <<1, 2, 1>>)
           => (a.marks_obtained = 4 /\ test_sessions[i].total_score = 7)

\* MCQ score 3, grading result (1, 2, 1) applied
C6_Witness ==
  \E i \in Sessions : \E a \in CodingOf(test_sessions[i]) :
    /\ McqMarks(test_sessions[i]) = 3
    /\ a.coding_breakdown = <<1, 2, 1>>
    /\ test_sessions[i].total_score = 7

\* C7: no out-of-bounds grading result is ever applied: every stored
\* breakdown has attempt_score in 0..1, syntax_score in 0..2, logic_score in
\* 0..2, the coding marks are at most 5 and total_score is at most 10.
C7_OutOfBoundsRejected ==
  \A i \in Sessions :
    /\ test_sessions[i].total_score <= 10
    /\ \A a \in CodingOf(test_sessions[i]) :
         /\ a.marks_obtained <= 5
         /\ a.coding_breakdown # NoBreakdown =>
              /\ a.coding_breakdown[1] \in 0..1
              /\ a.coding_breakdown[2] \in 0..2
              /\ a.coding_breakdown[3] \in 0..2

\* C8: whenever the form is shown a save can be made and puts the answer
\* under its key, whatever was saved there before (the last save of a key
\* wins), and touches nothing else; saving the pair that is already there
\* changes nothing at all; the completion scores the answers as last saved.
C8_SaveIdempotentLastWins ==
  /\ [](\A c \in Clients :
         (FormShown(c) /\ ~ShowTestHead(c).time_up) =>
           /\ \A answer \in Options :
                ENABLED (/\ SaveAnswer(c, answer)
                         /\ answers'[c][McqKey[current_mcq[c] + 1]] = answer)
           /\ \A code \in CodeTexts :
                CodingFormShown(c) =>
                  ENABLED (SaveCode(c, code) /\ answers'[c]["coding"] = code))
  /\ [][ \A c \in Clients :
        /\ \A answer \in Options :
             (SaveAnswer(c, answer) /\ ~ShowTestHead(c).time_up) =>
               LET key == McqKey[current_mcq[c] + 1] IN
               /\ DOMAIN answers'[c] = (DOMAIN answers[c]) \cup {key}
               /\ answers'[c][key] = answer
               /\ \A k \in (DOMAIN answers[c]) \ {key} :
                     answers'[c][k] = answers[c][k]
               /\ test_sessions' = test_sessions
               /\ Get(answers[c], key, None) = answer => UNCHANGED vars
        /\ \A code \in CodeTexts :
             (SaveCode(c, code) /\ ~ShowTestHead(c).time_up) =>
               /\ DOMAIN answers'[c] = (DOMAIN answers[c]) \cup {"coding"}
               /\ answers'[c]["coding"] = code
               /\ \A k \in (DOMAIN answers[c]) \ {"coding"} :
                     answers'[c][k] = answers[c][k]
               /\ test_sessions' = test_sessions
               /\ Get(answers[c], "coding", None) = code => UNCHANGED vars
        /\ (SubmitTest(c) /\ submit_result'[c] = "score") =>
             LET i == First(ActiveOf(student_id[c]))
                 d == test_sessions'[i]
             IN /\ d.is_completed
                /\ \A q \in 0..LastMcq :
                     /\ d.question_attempts[q + 1].question_id = q
                     /\ d.question_attempts[q + 1].student_answer
                          = Get(answers[c], McqKey[q + 1], None)
                     /\ d.question_attempts[q + 1].marks_obtained
                          = IF Get(answers[c], McqKey[q + 1], None)
                                = McqQuestions[q + 1] THEN 1 ELSE 0
    ]_vars

\* back on the first question after answering the second, with the first
\* answer saved as "B": that key was written on the way forward as well
C8_Witness ==
  /\ pc["c1"] = "idle"
  /\ current_mcq["c1"] = 0
  /\ DOMAIN answers["c1"] = {"mcq_0", "mcq_1"}
  /\ answers["c1"]["mcq_0"] = "B"

\* C9: is_completed only goes from false to true: no step of the student
\* flow, the re-evaluation pass or the email report sets it back, sessions
\* are never dropped, and a session enters the store Active.
C9_CompletedIsFinal ==
  [][ /\ Len(test_sessions') >= Len(test_sessions)
      /\ \A i \in Sessions :
            /\ test_sessions'[i]._id = test_sessions[i]._id
            /\ test_sessions[i].is_completed => test_sessions'[i].is_completed
      /\ \A i \in (Len(test_sessions) + 1)..Len(test_sessions') :
            /\ ~test_sessions'[i].is_completed
            /\ test_sessions'[i].question_attempts = <<>>
    ]_vars

\* a completed session that was re-graded and reported by email
C9_Witness ==
  \E i \in Sessions :
    /\ test_sessions[i].is_completed
    /\ test_sessions[i].feedback # None
    /\ test_sessions[i].email_sent

\* C11: a Start Test run whose get_unused_problem_set finds no MCQ set in
\* the question store ends with the error message: it inserts nothing, the
\* sessions in the store are what they were, and the student has no more
\* sessions than before.
C11_NoSetNoSession ==
  [][ \A c \in Clients :
        ( /\ pc[c] = "get_unused"
          /\ pc'[c] # "get_unused"
          /\ McqSetIds = {} )
        => /\ pc'[c] = "idle"
           /\ start_error'[c]
           /\ test_sessions' = test_sessions
           /\ picked'[c] = picked[c]
    ]_vars

\* the error was shown to a student who has no session, the bank holding
\* no MCQ set
C11_Witness ==
  \E c \in Clients :
    /\ start_error[c]
    /\ pc[c] = "idle"
    /\ McqSetIds = {}
    /\ ActiveOf(student_id[c]) = {}
    /\ CompletedOf(student_id[c]) = {}

\* C12: a submit_test call whose update_one matches no document (the
\* student has no session left with is_completed = false) reports the
\* failure, leaves every session document as it is, keeps the client's
\* session state (test_session, questions, answers, end_time), and ends the
\* run: the client is idle afterwards and no run of it reaches show_test
\* again, so the system does not call submit_test a second time by itself.
C12_FailedSubmitKeepsAll ==
  [][ \A c \in Clients :
        ( /\ pc[c] = "submit"
          /\ pc'[c] # "submit"
          /\ st_mcq[c] # <<>>
          /\ ActiveOf(student_id[c]) = {} )
        => /\ submit_result'[c] = "failed"
           /\ test_sessions' = test_sessions
           /\ st_test_session'[c] = st_test_session[c]
           /\ st_mcq'[c] = st_mcq[c]
           /\ st_coding'[c] = st_coding[c]
           /\ current_mcq'[c] = current_mcq[c]
           /\ answers'[c] = answers[c]
           /\ st_end_time'[c] = st_end_time[c]
           /\ pc'[c] = "idle"
           /\ DashboardBranch(test_sessions', student_id[c]) # "test"
    ]_vars

\* a client that was told of the failure and still holds its answers
C12_Witness ==
  \E c \in Clients :
    /\ submit_result[c] = "failed"
    /\ pc[c] = "idle"
    /\ st_test_session[c] # <<>>
    /\ answers[c] # EmptyDict
    /\ ActiveOf(student_id[c]) = {}
    /\ CompletedOf(student_id[c]) # {}

\* C13: a step of the Start Test handler taken while the student already
\* has a session with is_completed = false creates no session document and
\* leaves the start_time, problem_set_id and is_completed of the existing
\* sessions as they are.
C13_StartWhileActiveResumes ==
  [][ \A c \in Clients :
        ( /\ pc[c] \in {"idle", "get_unused", "insert"}
          /\ pc'[c] \in {"idle", "get_unused", "insert"}
          /\ pc'[c] # pc[c]
          /\ ActiveOf(student_id[c]) # {} )
        => /\ Len(test_sessions') = Len(test_sessions)
           /\ \A i \in Sessions :
                /\ test_sessions'[i].start_time = test_sessions[i].start_time
                /\ test_sessions'[i].problem_set_id
                     = test_sessions[i].problem_set_id
                /\ test_sessions'[i].is_completed
                     = test_sessions[i].is_completed
    ]_vars

\* C14: the session document written by a successful submit_test (called
\* by "Submit Test" or by the timer check) holds exactly one attempt with
\* question_id "coding_1", with is_correct None, marks_obtained 0 and the
\* saved code as student_answer ("" when no code was saved), also when no
\* coding set was found for the session's MCQ set.
C14_CodingPlaceholderAlways ==
  [][ \A c \in Clients :
        ( /\ pc[c] = "submit"
          /\ pc'[c] = "idle"
          /\ submit_result'[c] = "score" )
        => LET d == test_sessions'[First(ActiveOf(student_id[c]))]
               coding == {i \in Attempts(d) : IsCoding1(d.question_attempts[i])}
           IN /\ d.is_completed
              /\ Cardinality(coding) = 1
              /\ \A i \in coding :
                   /\ d.question_attempts[i].is_correct = None
                   /\ d.question_attempts[i].marks_obtained = 0
                   /\ d.question_attempts[i].student_answer
                        = Get(answers[c], "coding", "")
    ]_vars

\* C15: the session document inserted by Start Test has end_time =
\* start_time + the contest duration configured at that moment (60 minutes
\* when there is no contest_settings document), and the deadline a client
\* enforces for its session is the end_time stored in that session.
C15_EndTimeIsStartPlusDuration ==
  [][ /\ \A i \in (Len(test_sessions) + 1)..Len(test_sessions') :
           test_sessions'[i].end_time
             = test_sessions'[i].start_time + ContestDuration(settings)
      /\ \A c \in Clients :
           (st_test_session'[c] # <<>> /\ st_end_time'[c] # NoTime)
             => st_end_time'[c] = st_test_session'[c][1].end_time
    ]_vars

\* C16: the deadline of an Active session is fixed when the session is
\* created: every client session attached to the same session enforces the
\* same deadline, whether it attached before or after the admin saved a new
\* contest duration.
C16_DeadlineNotRetroactive ==
  \A c \in Clients : \A c2 \in Clients :
    ( /\ st_test_session[c] # <<>>
      /\ st_test_session[c2] # <<>>
      /\ st_test_session[c][1]._id = st_test_session[c2][1]._id
      /\ st_end_time[c] # NoTime
      /\ st_end_time[c2] # NoTime )
    => st_end_time[c] = st_end_time[c2]

\* C17: the session document written by a successful submit_test holds,
\* for every MCQ of the client's question list, an attempt with is_correct =
\* (the answer saved under its key equals its correct_answer) and
\* marks_obtained 1 or 0 accordingly; a question with no saved answer is
\* not correct and gets 0; total_score is the number of MCQs answered
\* correctly.
C17_McqGradedAtCompletion ==
  [][ \A c \in Clients :
        ( /\ pc[c] = "submit"
          /\ pc'[c] = "idle"
          /\ submit_result'[c] = "score" )
        => LET d == test_sessions'[First(ActiveOf(student_id[c]))]
               mcq == st_mcq[c][1]
               right == {q \in 1..Len(mcq) :
                           /\ McqKey[q] \in DOMAIN answers[c]
                           /\ answers[c][McqKey[q]] = mcq[q]}
           IN /\ d.is_completed
              /\ \A q \in 1..Len(mcq) :
                   /\ d.question_attempts[q].question_id = q - 1
                   /\ d.question_attempts[q].is_correct
                        = (IF q \in right THEN "True" ELSE "False")
                   /\ d.question_attempts[q].marks_obtained
                        = (IF q \in right THEN 1 ELSE 0)
                   /\ McqKey[q] \notin DOMAIN answers[c] =>
                        /\ d.question_attempts[q].student_answer = None
                        /\ d.question_attempts[q].is_correct = "False"
                        /\ d.question_attempts[q].marks_obtained = 0
              /\ d.total_score = Cardinality(right)
    ]_vars

\* a session completed with a right answer, a wrong answer and a question
\* left without an answer, not yet re-graded
C17_Witness ==
  \E i \in Sessions :
    LET d == test_sessions[i] IN
    /\ d.is_completed
    /\ d.feedback = None
    /\ d.total_score > 0
    /\ \E x \in Attempts(d) : /\ IsIntId(d.question_attempts[x])
                              /\ d.question_attempts[x].is_correct = "True"
    /\ \E x \in Attempts(d) : /\ IsIntId(d.question_attempts[x])
                              /\ d.question_attempts[x].student_answer \in Options
                              /\ d.question_attempts[x].is_correct = "False"
    /\ \E x \in Attempts(d) : /\ IsIntId(d.question_attempts[x])
                              /\ d.question_attempts[x].student_answer = None

\* C18: Save Answer, Previous, Next and Save Code write the client's answer
\* map only: no session document changes in such a step, however many are
\* taken; a session that is not completed has no question_attempts and
\* total_score 0; and question_attempts goes from empty to filled only in
\* the step of submit_test that completes the session.
C18_SavesTouchOnlyDraft ==
  /\ [](\A i \in Sessions :
          ~test_sessions[i].is_completed =>
             /\ test_sessions[i].question_attempts = <<>>
             /\ test_sessions[i].total_score = 0)
  /\ [][ \A c \in Clients :
           ( \/ \E answer \in Options : \/ SaveAnswer(c, answer)
                                        \/ PrevQuestion(c, answer)
                                        \/ NextQuestion(c, answer)
             \/ \E code \in CodeTexts : SaveCode(c, code) )
           => /\ test_sessions' = test_sessions
              /\ \A c2 \in Clients \ {c} : answers'[c2] = answers[c2]
       ]_vars
  /\ [][ \A i \in Sessions :
           test_sessions'[i].question_attempts
             # test_sessions[i].question_attempts
           => \/ test_sessions[i].is_completed
              \/ /\ test_sessions'[i].is_completed
                 /\ \E c \in Clients :
                      /\ student_id[c] = test_sessions[i].student_id
                      /\ pc[c] = "submit"
                      /\ pc'[c] = "idle"
       ]_vars

\* answers and code were saved, a question was passed, and the session
\* document is still as it was inserted
C18_Witness ==
  \E c \in Clients :
    /\ pc[c] = "idle"
    /\ {"mcq_0", "mcq_4", "coding"} \subseteq DOMAIN answers[c]
    /\ answers[c]["coding"] = "code"
    /\ \E i \in ActiveOf(student_id[c]) :
         /\ test_sessions[i].question_attempts = <<>>
         /\ test_sessions[i].total_score = 0
         /\ test_sessions[i].end_time
              = test_sessions[i].start_time + DashboardEndOffset

C20_RegradeIdempotent ==
  [][ \A resp \in EvalResponses :
        ( /\ RevalSession(resp)
          /\ reval_queue' = Tail(reval_queue)
          /\ \E i \in Sessions : test_sessions[i]._id = Head(reval_queue)._id )
        => LET i == CHOOSE j \in Sessions :
                      test_sessions[j]._id = Head(reval_queue)._id
               d == test_sessions[i]
               e == test_sessions'[i]
               asked == EvaluatorAsked(questions,
                          ResolveCodingSetId(questions, Head(reval_queue)))
               again == RegradedSession(e, asked, resp)
           IN /\ \A a \in CodingOf(d) :
                   ( /\ d.feedback # None
                     /\ resp.kind = "scores"
                     /\ a.coding_breakdown = <<resp.attempt_score,
                                               resp.syntax_score,
                                               resp.logic_score>> )
                   => /\ e.total_score = d.total_score
                      /\ \A b \in CodingOf(e) :
                           b.marks_obtained = a.marks_obtained
              /\ again.total_score = e.total_score
              /\ again.question_attempts = e.question_attempts
    ]_vars

\* a later pass has come to a session that carries the result (1, 2, 1)
\* from an earlier one
C20_Witness ==
  /\ reval_queue # <<>>
  /\ Head(reval_queue).feedback # None
  /\ Head(reval_queue).total_score = 7
  /\ \E a \in CodingOf(Head(reval_queue)) :
        /\ a.coding_breakdown = <<1, 2, 1>>
        /\ a.marks_obtained = 4
  /\ \E i \in Sessions : test_sessions[i] = Head(reval_queue)

\* C21: the completion is one write: no session is completed with an empty
\* question_attempts list or not completed with a filled one, and the step
\* that sets is_completed also sets end_time to the time of the call and
\* writes question_attempts and the total_score that goes with them.
C21_CompletionAllOrNothing ==
  /\ [](\A i \in Sessions :
          test_sessions[i].is_completed
            <=> test_sessions[i].question_attempts # <<>>)
  /\ [][ \A i \in Sessions :
           (~test_sessions[i].is_completed /\ test_sessions'[i].is_completed)
           => /\ test_sessions[i].question_attempts = <<>>
              /\ test_sessions'[i].question_attempts # <<>>
              /\ test_sessions'[i].end_time = now
              /\ test_sessions'[i].total_score = McqMarks(test_sessions'[i])
       ]_vars

\* a session completed by the timer check, later than the end_time it was
\* inserted with, holding its attempts and a score
C21_Witness ==
  \E i \in Sessions :
    /\ test_sessions[i].is_completed
    /\ test_sessions[i].end_time
         > test_sessions[i].start_time + DashboardEndOffset
    /\ Len(test_sessions[i].question_attempts) = LastMcq + 2
    /\ test_sessions[i].total_score = 2
    /\ test_sessions[i].feedback = None

\* C22: the clock alone changes no session and starts no handler; a
\* session whose deadline has passed stays is_completed = false until a run
\* of a client of its student reaches the timer check of show_test, and a
\* session becomes completed only in the submit_test call of such a run.
C22_ExpiryIsLazy ==
  /\ [][ now' # now => (test_sessions' = test_sessions /\ pc' = pc) ]_vars
  /\ [][ \A i \in Sessions :
           (~test_sessions[i].is_completed /\ test_sessions'[i].is_completed)
           => /\ now' = now
              /\ \E c \in Clients :
                   /\ student_id[c] = test_sessions[i].student_id
                   /\ pc[c] = "submit"
                   /\ pc'[c] = "idle"
                   /\ st_end_time[c] # NoTime
       ]_vars

\* the clock has passed both the stored end_time and start_time + contest
\* duration, nobody has rendered since, and the session is still Active
C22_Witness ==
  \E i \in Sessions :
    /\ ~test_sessions[i].is_completed
    /\ now > test_sessions[i].end_time
    /\ now >= test_sessions[i].start_time + ContestDuration(settings)
    /\ \A c \in Clients :
         /\ pc[c] = "idle"
         /\ st_end_time[c] # NoTime => now >= st_end_time[c]
    /\ \E c \in Clients : /\ student_id[c] = test_sessions[i].student_id
                          /\ st_end_time[c] # NoTime

\* C23: once a student has a completed session, every run of
\* show_dashboard for that student takes the completed branch: the Start
\* Test button cannot be clicked, no session is added for the student, and
\* with one client session per student a student never has more than one
\* session.
C23_NoRestartAfterCompletion ==
  /\ [](\A c \in Clients :
          CompletedOf(student_id[c]) # {} =>
            /\ DashboardBranch(test_sessions, student_id[c]) = "completed"
            /\ ~ENABLED ClickStart(c))
  /\ [](\A s \in Students :
          Cardinality({i \in Sessions : test_sessions[i].student_id = s}) <= 1)
  /\ [][ \A s \in Students :
           CompletedOf(s) # {} =>
             {i \in 1..Len(test_sessions') : test_sessions'[i].student_id = s}
               = {i \in Sessions : test_sessions[i].student_id = s}
       ]_vars

\* the student's only session is completed and re-graded, the client is
\* back on the dashboard with its test state cleared, and time has passed
C23_Witness ==
  \E c \in Clients :
    /\ pc[c] = "idle"
    /\ submit_result[c] = "score"
    /\ st_test_session[c] = <<>>
    /\ Cardinality(CompletedOf(student_id[c])) = 1
    /\ ActiveOf(student_id[c]) = {}
    /\ \E i \in CompletedOf(student_id[c]) :
         /\ test_sessions[i].feedback # None
         /\ now > test_sessions[i].end_time

\* C24: with the admin's delete handlers (Delete of an MCQ set, Delete of a
\* coding set, Delete All Sets) run to their end one after the other, every
\* session in the store has a problem_set_id that is the _id of an MCQ set
\* in the bank: no delete removes an MCQ set that a session refers to.
C24_SessionsReferToExistingSets ==
  deleting = <<>> =>
    \A i \in Sessions : test_sessions[i].problem_set_id \in McqSetIds

\* C25: a click on Save Answer, Previous, Next, Save Code or Submit Test
\* that reaches the server when the client's deadline has passed writes
\* nothing to the answer map: the run stops at the timer check and calls
\* submit_test, which scores the map as it was before the click.
C25_LateInputNotScored ==
  [][ \A c \in Clients :
        /\ ( /\ st_end_time[c] # NoTime
             /\ now >= st_end_time[c]
             /\ \/ \E answer \in Options : \/ SaveAnswer(c, answer)
                                          \/ PrevQuestion(c, answer)
                                          \/ NextQuestion(c, answer)
                \/ \E code \in CodeTexts : \/ SaveCode(c, code)
                                           \/ ClickSubmit(c, code) )
           => /\ answers'[c] = answers[c]
              /\ current_mcq'[c] = current_mcq[c]
              /\ pc'[c] = "submit"
              /\ test_sessions' = test_sessions
        /\ (pc[c] = "submit" /\ pc'[c] = "submit") => answers'[c] = answers[c]
        /\ ( /\ pc[c] = "submit"
             /\ pc'[c] = "idle"
             /\ submit_result'[c] = "score" )
           => LET d == test_sessions'[First(ActiveOf(student_id[c]))]
              IN /\ d.answers = answers[c]
                 /\ d.total_score
                      = Cardinality({q \in 1..Len(st_mcq[c][1]) :
                           Get(answers[c], McqKey[q], None) = st_mcq[c][1][q]})
    ]_vars

\* the deadline has passed with the student on the last question, answers
\* and code saved, and the run of a click or refresh has reached submit_test
C25_Witness ==
  \E c \in Clients :
    /\ pc[c] = "submit"
    /\ st_end_time[c] # NoTime
    /\ now >= st_end_time[c]
    /\ current_mcq[c] = LastMcq
    /\ "coding" \in DOMAIN answers[c]
    /\ "mcq_4" \notin DOMAIN answers[c]

\* C26: a client session that attaches to an Active session starts with an
\* empty answer map and the first question, and submit_test scores the
\* answer map of the client session it runs in and nothing else: a question
\* without an answer in that map is stored as unanswered with 0 marks,
\* whatever another client session of the student has saved for it.
C26_ScoreFromCompletingClientOnly ==
  [][ \A c \in Clients :
        /\ ( /\ st_test_session[c] = <<>>
             /\ st_test_session'[c] # <<>>
             /\ st_mcq'[c] # <<>> )
           => /\ answers'[c] = EmptyDict
              /\ current_mcq'[c] = 0
        /\ ( /\ pc[c] = "submit"
             /\ pc'[c] = "idle"
             /\ submit_result'[c] = "score" )
           => LET d == test_sessions'[First(ActiveOf(student_id[c]))]
              IN \A q \in 1..Len(st_mcq[c][1]) :
                   IF McqKey[q] \in DOMAIN answers[c]
                   THEN d.question_attempts[q].student_answer
                          = answers[c][McqKey[q]]
                   ELSE /\ d.question_attempts[q].student_answer = None
                        /\ d.question_attempts[q].marks_obtained = 0
        /\ \A c2 \in Clients \ {c} :
             (answers'[c] # answers[c]) => answers'[c2] = answers[c2]
    ]_vars

\* the last question was answered rightly in one client session and the
\* test submitted from another that had no answer for it: the attempt is
\* stored as unanswered
C26_Witness ==
  \E c \in Clients : \E c2 \in Clients \ {c} :
    /\ student_id[c2] = student_id[c]
    /\ submit_result[c] = "score"
    /\ st_test_session[c2] # <<>>
    /\ "mcq_4" \in DOMAIN answers[c2]
    /\ answers[c2]["mcq_4"] = McqQuestions[5]
    /\ \E i \in Sessions :
         /\ test_sessions[i]._id = st_test_session[c2][1]._id
         /\ test_sessions[i].is_completed
         /\ test_sessions[i].question_attempts[5].student_answer = None
         /\ test_sessions[i].question_attempts[5].marks_obtained = 0

\* C27: a submit_test call of a client of student A changes at most one
\* session document, and only one whose student_id is A's and which was
\* not completed: the sessions of every other student and every completed
\* session are left as they are, and no document is added or dropped.
C27_SubmitTouchesOwnActiveOnly ==
  [][ \A c \in Clients :
        (pc[c] = "submit" /\ pc'[c] = "idle")
        => /\ Len(test_sessions') = Len(test_sessions)
           /\ Cardinality({i \in Sessions :
                             test_sessions'[i] # test_sessions[i]}) <= 1
           /\ \A i \in Sessions :
                test_sessions'[i] # test_sessions[i]
                => /\ test_sessions[i].student_id = student_id[c]
                   /\ test_sessions'[i].student_id = student_id[c]
                   /\ test_sessions'[i]._id = test_sessions[i]._id
                   /\ ~test_sessions[i].is_completed
    ]_vars

\* the student whose session was inserted second has submitted; the
\* session of the other student, first in the store, is still Active and
\* as it was inserted, while that student has answers saved
C27_Witness ==
  \E c \in Clients : \E c2 \in Clients :
    /\ student_id[c] # student_id[c2]
    /\ submit_result[c] = "score"
    /\ answers[c2] # EmptyDict
    /\ \E i \in Sessions : \E j \in Sessions :
         /\ j < i
         /\ test_sessions[i].student_id = student_id[c]
         /\ test_sessions[i].is_completed
         /\ test_sessions[j].student_id = student_id[c2]
         /\ ~test_sessions[j].is_completed
         /\ test_sessions[j].question_attempts = <<>>

\* C28: in every reachable state every session with is_completed = false
\* has question_attempts = [], total_score = 0 and no feedback: nothing
\* writes these fields between the insert and the completion, the
\* re-evaluation pass included.
C28_ActiveSessionIsBlank ==
  \A i \in Sessions :
    ~test_sessions[i].is_completed =>
      /\ test_sessions[i].question_attempts = <<>>
      /\ test_sessions[i].total_score = 0
      /\ test_sessions[i].feedback = None

\* a re-evaluation pass has run to its end over a completed session while
\* another session was Active, and that one is still blank
C28_Witness ==
  /\ reval_queue = <<>>
  /\ \E i \in Sessions : \E j \in Sessions :
       /\ ~test_sessions[i].is_completed
       /\ test_sessions[i].question_attempts = <<>>
       /\ test_sessions[i].feedback = None
       /\ test_sessions[j].is_completed
       /\ test_sessions[j].feedback # None
       /\ test_sessions[j].total_score > 0

\* C29: with the MCQ sets of the bank fixed, no session deleted and the
\* Start Test handlers run one at a time, the numbers of sessions that
\* refer to any two MCQ sets differ by at most 1 in every reachable state.
C29_UsageBalanced ==
  \A a \in McqSetIds : \A b \in McqSetIds :
    SetUsage(test_sessions, a) - SetUsage(test_sessions, b) <= 1

\* more starts than twice the number of sets: every set was handed out by
\* the unused rule and again by the least-used rule
C29_Witness ==
  /\ Len(test_sessions) > 2 * Cardinality(McqSetIds)
  /\ \A a \in McqSetIds : SetUsage(test_sessions, a) >= 2
  /\ \E a \in McqSetIds : SetUsage(test_sessions, a) = 3
  /\ \A c \in Clients : pc[c] = "idle"

\* C30: a turn of the re-evaluation pass that gets no usable result for a
\* session whose submitted code is not blank (the evaluator returns nothing,
\* its answer is not parsable JSON, or the coding question set is not found)
\* leaves the is_correct, marks_obtained and coding_breakdown of the
\* session's coding attempt and the session's total_score as they were.
C30_NoResultKeepsGrade ==
  [][ \A resp \in EvalResponses :
        ( /\ RevalSession(resp)
          /\ reval_queue' = Tail(reval_queue)
          /\ \E a \in CodingOf(Head(reval_queue)) : Strip(a.student_answer) # ""
          /\ \/ resp.kind \in {"none", "unparsable"}
             \/ ~EvaluatorAsked(questions,
                   ResolveCodingSetId(questions, Head(reval_queue)))
          /\ \E i \in Sessions : test_sessions[i]._id = Head(reval_queue)._id )
        => LET i == CHOOSE j \in Sessions :
                      test_sessions[j]._id = Head(reval_queue)._id
               d == test_sessions[i]
               e == test_sessions'[i]
           IN /\ e._id = d._id
              /\ e.total_score = d.total_score
              /\ Len(e.question_attempts) = Len(d.question_attempts)
              /\ \A x \in Attempts(d) :
                   IsCoding1(d.question_attempts[x]) =>
                     /\ e.question_attempts[x].is_correct
                          = d.question_attempts[x].is_correct
                     /\ e.question_attempts[x].marks_obtained
                          = d.question_attempts[x].marks_obtained
                     /\ e.question_attempts[x].coding_breakdown
                          = d.question_attempts[x].coding_breakdown
    ]_vars

\* a pass has handled a session with code and has written its feedback, the
\* coding set of the session is gone from the bank, and the coding attempt is
\* still ungraded with the total the submission gave
C30_Witness ==
  \E i \in Sessions :
    /\ test_sessions[i].feedback # None
    /\ ~EvaluatorAsked(questions,
          ResolveCodingSetId(questions, test_sessions[i]))
    /\ test_sessions[i].total_score = McqMarks(test_sessions[i])
    /\ \E a \in CodingOf(test_sessions[i]) :
         /\ Strip(a.student_answer) # ""
         /\ a.is_correct = "None"
         /\ a.coding_breakdown = NoBreakdown
====
